---- MODULE Spec2Model ----
(***************************************************************************)
(* Model of the tower-governor admission middleware (src/src/lib.rs):      *)
(* the two Service::call implementations of Governor (NoOpMiddleware and   *)
(* StateInformationMiddleware), the ResponseFuture they return, and the    *)
(* keyed rate limiter they share.                                          *)
(*                                                                         *)
(* Each request r is one invocation of Governor::call running on its own   *)
(* task.  call is modelled in two steps, so that concurrent invocations    *)
(* interleave: the admission step (method filter, key extractor,           *)
(* limiter.check_key, which is the only access to shared mutable state and *)
(* is atomic), and the return step (clock read for the wait time,          *)
(* inner.call, construction of the ResponseFuture).  The future is then    *)
(* polled, its downstream completes, or it is dropped.                     *)
(*                                                                         *)
(* Time is counted in ticks; TicksPerSec ticks make one second.  Instants   *)
(* are kept relative to the clock reading: the limiter holds, for each     *)
(* key, how far in the future its stored instant lies, and Tick moves the  *)
(* clock one tick forward by moving every stored instant one tick closer.  *)
(*                                                                         *)
(* Spec is the whole program.  SpecReady is the Service implementation     *)
(* (poll_ready and call), SpecExhausted the program met with the burst of  *)
(* one key already spent, FairSpec the requests of one instant with calls  *)
(* that return and futures that are polled until their downstream resolves.*)
(***************************************************************************)
EXTENDS Integers, Sequences, FiniteSets, TLC

\* ------------------------------------------------------------------ bounds
NumReq == 2          \* concurrent requests
BurstSize == 1       \* the quota's burst size
Period == 2          \* ticks to replenish one token
TicksPerSec == 2     \* resolution of the clock

Reqs == 1..NumReq
Methods == {"GET", "POST"}
Keys == {"k1", "k2"}
NoKey == "no-key"    \* the request carries nothing to extract a key from

VARIABLES
    middleware,   \* M of Governor<K, M, S>
    methods,      \* Governor.methods : Option<Vec<Method>>
    burst_size,   \* the quota's burst size
    limiter,      \* per-key state of the shared rate limiter, in ticks from now
    pc,           \* position of each call: "idle", "checked", "returned"
    req,          \* the request each call was given
    local,        \* what each call holds once its admission step is done
    fut,          \* the ResponseFuture each call returned
    out,          \* what each future resolved to, once a poll returned Ready
    spy,          \* call counts of each request: extractor, limiter.check_key, inner.call
    ready         \* the last poll_ready of the service: what inner answered, what it returned

vars == <<middleware, methods, burst_size, limiter, pc, req, local, fut, out, spy, ready>>
config == <<middleware, methods, burst_size>>

\* ------------------------------------------------------------------ HTTP values
Absent == "<absent>"
HeaderNames == {"x-ratelimit-after", "x-ratelimit-limit",
                "x-ratelimit-remaining", "x-ratelimit-whitelisted"}
NoHeaders == [n \in HeaderNames |-> Absent]

\* HeaderMap::insert, Builder::header: the value takes the place of what the
\* name held
insert(headers, name, value) == [headers EXCEPT ![name] = value]

\* HeaderMap::extend(other.drain()): every name of other replaces the value held
extend(headers, other) ==
    [n \in HeaderNames |-> IF other[n] # Absent THEN other[n] ELSE headers[n]]

Response(status, headers, body) ==
    [status |-> status, headers |-> headers, body |-> body]
NoResponse == Response(0, NoHeaders, "")

\* u64::to_string, HeaderValue::from(u32): decimal digits
to_string(n) == ToString(n)

TooManyRequests == "Too many requests"

\* what the downstream handler may answer
HandlerSet == [n \in HeaderNames |->
                 IF n = "x-ratelimit-after" THEN Absent ELSE "set-by-handler"]
HandlerResponses == {Response(200, NoHeaders, "handler body"),
                     Response(200, HandlerSet, "handler body")}
HandlerErrors == {"handler error"}

Ok(response) == [tag |-> "Ok", response |-> response, error |-> ""]
Err(error) == [tag |-> "Err", response |-> NoResponse, error |-> error]
NoResult == [tag |-> "none", response |-> NoResponse, error |-> ""]

HandlerResults == {Ok(resp) : resp \in HandlerResponses} \cup {Err(e) : e \in HandlerErrors}

Pending == [poll |-> "Pending", result |-> NoResult]
\* the poll did not return: Option::unwrap on None
Panic == [poll |-> "Panic", result |-> NoResult]
Ready(result) == [poll |-> "Ready", result |-> result]

\* ------------------------------------------------------------------ collaborators
\* KeyExtractor::extract: the key, or an error
ExtractionErrorText == "UnableToExtractKey"
extract(rq) ==
    IF rq.api_key = NoKey
    THEN [ok |-> FALSE, key |-> NoKey, error |-> ExtractionErrorText]
    ELSE [ok |-> TRUE, key |-> rq.api_key, error |-> ""]

\* Vec<Method>::contains
contains(configured_methods, method) == method \in configured_methods

Max(a, b) == IF a > b THEN a ELSE b
SatSub(a, b) == IF a > b THEN a - b ELSE 0

\* RateLimiter::check_key: one atomic test-and-update of the key's state.
\* tat is the instant at which the bucket is full again (GCRA), t0 the clock
\* reading; a key never seen holds an instant that is not in the future.  Each
\* admission consumes one token, a token is replenished every Period ticks, and
\* the bucket holds at most b tokens.
check_key(tat, t0, b) ==
    LET tau == Period * (b - 1)
        earliest == SatSub(tat, tau)
        start == Max(tat, t0)
    IN IF t0 < earliest
       THEN [ok |-> FALSE, tat |-> tat, earliest |-> earliest,
             remaining |-> 0, burst |-> b]
       ELSE [ok |-> TRUE, tat |-> start + Period, earliest |-> t0,
             remaining |-> (t0 + tau - start) \div Period, burst |-> b]

\* DefaultClock::now, the origin of the relative instants
Now == 0

\* NotUntil::wait_time_from
wait_time_from(earliest, from) == SatSub(earliest, from)
\* Variant of as_secs that rounds up to the next whole second.
as_secs_rounded_up(ticks) == (ticks + TicksPerSec - 1) \div TicksPerSec
\* Duration::as_secs: whole seconds, truncated
as_secs(ticks) == ticks \div TicksPerSec

\* ------------------------------------------------------------------ state
NoRequest == [method |-> "GET", api_key |-> NoKey]

\* The outcome of a call's admission step: the snapshot or the negative outcome
\* of check_key (earliest in ticks from now), or the extractor's error.  age is
\* the number of ticks since an admission, counted up to Period.
NoLocal == [tag |-> "none", key |-> NoKey, age |-> 0, earliest |-> 0,
            remaining |-> 0, burst |-> 0, error |-> ""]
Whitelisted == [NoLocal EXCEPT !.tag = "Whitelisted"]
ExtractionFailed(e) == [NoLocal EXCEPT !.tag = "ExtractionFailed", !.error = e.error]
Admitted(key, d) ==
    [NoLocal EXCEPT !.tag = "Admitted", !.key = key, !.remaining = d.remaining,
                    !.burst = d.burst]
Rejected(key, d) ==
    [NoLocal EXCEPT !.tag = "Rejected", !.key = key, !.earliest = d.earliest,
                    !.burst = d.burst]

\* the wrapped downstream future S::Future: in flight, resolved or dropped
NoFuture == [state |-> "none", result |-> NoResult]
PendingFuture == [state |-> "pending", result |-> NoResult]
ResolvedFuture(result) == [state |-> "resolved", result |-> result]
DroppedFuture == [state |-> "dropped", result |-> NoResult]

\* Kind<F>, with the life of the ResponseFuture holding it
Kind(kind, future, burst, remaining, error_response) ==
    [kind |-> kind, future |-> future, burst_size |-> burst,
     remaining_burst_capacity |-> remaining, error_response |-> error_response,
     life |-> "live"]
NoKind == [Kind("none", NoFuture, 0, 0, NoResponse) EXCEPT !.life = "none"]
Passthrough(future) == Kind("Passthrough", future, 0, 0, NoResponse)
RateLimitHeader(future, burst, remaining) ==
    Kind("RateLimitHeader", future, burst, remaining, NoResponse)
WhitelistedHeader(future) == Kind("WhitelistedHeader", future, 0, 0, NoResponse)
\* Variant of Error that holds None for its response.
Error_holds_none(error_response) == Kind("Error", NoFuture, 0, 0, NoResponse)
\* error_response: Some(response); NoResponse stands for None
Error(error_response) == Kind("Error", NoFuture, 0, 0, error_response)

NoSpy == [extract |-> 0, check_key |-> 0, inner_call |-> 0]

\* Poll<Result<(), S::Error>>, the answers of the downstream poll_ready
OkUnit == [tag |-> "Ok", response |-> NoResponse, error |-> ""]
InnerReady == {Pending, Ready(OkUnit)} \cup {Ready(Err(e)) : e \in HandlerErrors}
\* exhausted: whether some key had no token left when poll_ready was called
NoReady == [polled |-> FALSE, inner |-> Pending, returned |-> Pending, exhausted |-> FALSE]

MethodConfigs == {[some |-> FALSE, set |-> {}], [some |-> TRUE, set |-> {"POST"}]}

Init ==
    /\ middleware \in {"NoOpMiddleware", "StateInformationMiddleware"}
    /\ methods \in MethodConfigs
    /\ burst_size = BurstSize
    /\ limiter = [k \in Keys |-> 0]
    /\ pc = [r \in Reqs |-> "idle"]
    /\ req = [r \in Reqs |-> NoRequest]
    /\ local = [r \in Reqs |-> NoLocal]
    /\ fut = [r \in Reqs |-> NoKind]
    /\ out = [r \in Reqs |-> NoResult]
    /\ spy = [r \in Reqs |-> NoSpy]
    /\ ready = NoReady

\* Requests enter in the order of their numbers, and "k2" is the second key to
\* be seen (the numbers and the names are labels only).
Arrives(r) == pc[r] = "idle" /\ (IF r = 1 THEN TRUE ELSE pc[r - 1] # "idle")
KeysFor(r) ==
    {"k1", NoKey} \cup {k \in Keys : \E q \in 1..(r - 1) : req[q].api_key = "k1"}
Requests(r) == [method : Methods, api_key : KeysFor(r)]

\* ------------------------------------------------------------------ Governor<K, NoOpMiddleware, S>
\* Variant of NoOp_admission that forwards whatever check_key answers.
NoOp_admission_ignores_denial(rq, lim) ==
    IF methods.some /\ ~contains(methods.set, rq.method)
    THEN [local |-> Whitelisted, limiter |-> lim, extract |-> 0, check_key |-> 0]
    ELSE LET e == extract(rq)
             d == check_key(lim[e.key], Now, burst_size)
         IN IF ~e.ok
            THEN [local |-> ExtractionFailed(e), limiter |-> lim,
                  extract |-> 1, check_key |-> 0]
            ELSE [local |-> Admitted(e.key, d),
                  limiter |-> [lim EXCEPT ![e.key] = d.tat],
                  extract |-> 1, check_key |-> 1]

\* Variant of NoOp_admission that runs the key extractor before the method filter.
NoOp_admission_extract_first(rq, lim) ==
    LET e == extract(rq)
        d == check_key(lim[e.key], Now, burst_size)
    IN IF ~e.ok
       THEN [local |-> ExtractionFailed(e), limiter |-> lim,
             extract |-> 1, check_key |-> 0]
       ELSE IF methods.some /\ ~contains(methods.set, rq.method)
       THEN [local |-> Whitelisted, limiter |-> lim, extract |-> 1, check_key |-> 0]
       ELSE [local |-> IF d.ok THEN Admitted(e.key, d) ELSE Rejected(e.key, d),
             limiter |-> [lim EXCEPT ![e.key] = d.tat],
             extract |-> 1, check_key |-> 1]

\* call, lines 72-84 and the match arms: method filter, key extractor,
\* limiter.check_key.  lim is the limiter's state; the result holds the state
\* it is left in and the collaborators invoked.
NoOp_admission(rq, lim) ==
    IF methods.some /\ ~contains(methods.set, rq.method)
    THEN [local |-> Whitelisted, limiter |-> lim, extract |-> 0, check_key |-> 0]
    ELSE LET e == extract(rq)
             d == check_key(lim[e.key], Now, burst_size)
         IN IF ~e.ok
            THEN [local |-> ExtractionFailed(e), limiter |-> lim,
                  extract |-> 1, check_key |-> 0]
            ELSE [local |-> IF d.ok THEN Admitted(e.key, d) ELSE Rejected(e.key, d),
                  limiter |-> [lim EXCEPT ![e.key] = d.tat],
                  extract |-> 1, check_key |-> 1]

NoOp_call_check(r) ==
    /\ middleware = "NoOpMiddleware"
    /\ Arrives(r)
    /\ \E rq \in Requests(r) :
         LET a == NoOp_admission(rq, limiter)
         IN /\ req' = [req EXCEPT ![r] = rq]
            /\ local' = [local EXCEPT ![r] = a.local]
            /\ limiter' = a.limiter
            /\ spy' = [spy EXCEPT ![r].extract = @ + a.extract,
                                  ![r].check_key = @ + a.check_key]
    /\ pc' = [pc EXCEPT ![r] = "checked"]
    /\ UNCHANGED <<config, fut, out, ready>>

\* Variant of NoOp_return that forwards the request after a failed extraction.
NoOp_return_forwards_on_error(l, t) ==
    CASE l.tag = "Whitelisted" ->
            [future |-> Passthrough(PendingFuture), inner_call |-> 1]
      [] l.tag = "Admitted" ->
            [future |-> Passthrough(PendingFuture), inner_call |-> 1]
      [] l.tag = "Rejected" ->
            LET wait_time == as_secs(wait_time_from(l.earliest, t))
                h1 == insert(NoHeaders, "x-ratelimit-after", to_string(wait_time))
            IN [future |-> Error(Response(429, h1, TooManyRequests)), inner_call |-> 0]
      [] l.tag = "ExtractionFailed" ->
            [future |-> Error(Response(500, NoHeaders, l.error)), inner_call |-> 1]

\* call, lines 75-78 and 85-139: what each outcome returns, and whether
\* inner.call(req) is invoked; t is the clock reading of line 94
NoOp_return(l, t) ==
    CASE l.tag = "Whitelisted" ->
            [future |-> Passthrough(PendingFuture), inner_call |-> 1]
      [] l.tag = "Admitted" ->
            [future |-> Passthrough(PendingFuture), inner_call |-> 1]
      [] l.tag = "Rejected" ->
            LET wait_time == as_secs(wait_time_from(l.earliest, t))
                h1 == insert(NoHeaders, "x-ratelimit-after", to_string(wait_time))
            IN [future |-> Error(Response(429, h1, TooManyRequests)), inner_call |-> 0]
      [] l.tag = "ExtractionFailed" ->
            [future |-> Error(Response(500, NoHeaders, l.error)), inner_call |-> 0]

NoOp_call_return(r) ==
    /\ middleware = "NoOpMiddleware"
    /\ pc[r] = "checked"
    /\ LET ret == NoOp_return(local[r], Now)
       IN /\ fut' = [fut EXCEPT ![r] = ret.future]
          /\ spy' = [spy EXCEPT ![r].inner_call = @ + ret.inner_call]
    /\ pc' = [pc EXCEPT ![r] = "returned"]
    /\ UNCHANGED <<config, limiter, req, local, out, ready>>

\* poll_ready, lines 67-69: self.inner.poll_ready(cx); lim is the limiter's state,
\* which the service holds and does not consult
NoOp_ready(lim, inner_ready) == inner_ready

NoOp_poll_ready ==
    /\ middleware = "NoOpMiddleware"
    /\ \E inner_ready \in InnerReady :
         ready' = [polled |-> TRUE, inner |-> inner_ready,
                   returned |-> NoOp_ready(limiter, inner_ready),
                   exhausted |-> \E k \in Keys : ~check_key(limiter[k], Now, burst_size).ok]
    /\ UNCHANGED <<config, limiter, pc, req, local, fut, out, spy>>

\* ------------------------------------------------------------------ Governor<K, StateInformationMiddleware, S>
\* Variant of StateInfo_ready that signals backpressure while a key has no token left.
StateInfo_ready_backpressure(lim, inner_ready) ==
    IF \E k \in Keys : ~check_key(lim[k], Now, burst_size).ok THEN Pending ELSE inner_ready

\* poll_ready, lines 244-248
StateInfo_ready(lim, inner_ready) == inner_ready

StateInfo_poll_ready ==
    /\ middleware = "StateInformationMiddleware"
    /\ \E inner_ready \in InnerReady :
         ready' = [polled |-> TRUE, inner |-> inner_ready,
                   returned |-> StateInfo_ready(limiter, inner_ready),
                   exhausted |-> \E k \in Keys : ~check_key(limiter[k], Now, burst_size).ok]
    /\ UNCHANGED <<config, limiter, pc, req, local, fut, out, spy>>

\* Variant of StateInfo_admission that applies the method filter last, after the
\* extractor and the limiter.
StateInfo_admission_filter_last(rq, lim) ==
    LET e == extract(rq)
        d == check_key(lim[e.key], Now, burst_size)
    IN IF ~e.ok
       THEN [local |-> IF methods.some /\ ~contains(methods.set, rq.method)
                       THEN Whitelisted ELSE ExtractionFailed(e),
             limiter |-> lim, extract |-> 1, check_key |-> 0]
       ELSE [local |-> IF methods.some /\ ~contains(methods.set, rq.method)
                       THEN Whitelisted
                       ELSE IF d.ok THEN Admitted(e.key, d) ELSE Rejected(e.key, d),
             limiter |-> [lim EXCEPT ![e.key] = d.tat],
             extract |-> 1, check_key |-> 1]

\* Variant of StateInfo_admission that grants one request more than the burst.
StateInfo_admission_lenient(rq, lim) ==
    IF methods.some /\ ~contains(methods.set, rq.method)
    THEN [local |-> Whitelisted, limiter |-> lim, extract |-> 0, check_key |-> 0]
    ELSE LET e == extract(rq)
             d == check_key(lim[e.key], Now, burst_size + 1)
         IN IF ~e.ok
            THEN [local |-> ExtractionFailed(e), limiter |-> lim,
                  extract |-> 1, check_key |-> 0]
            ELSE [local |-> IF d.ok THEN Admitted(e.key, d) ELSE Rejected(e.key, d),
                  limiter |-> [lim EXCEPT ![e.key] = d.tat],
                  extract |-> 1, check_key |-> 1]

\* call, lines 251-263 and the match arms
StateInfo_admission(rq, lim) ==
    IF methods.some /\ ~contains(methods.set, rq.method)
    THEN [local |-> Whitelisted, limiter |-> lim, extract |-> 0, check_key |-> 0]
    ELSE LET e == extract(rq)
             d == check_key(lim[e.key], Now, burst_size)
         IN IF ~e.ok
            THEN [local |-> ExtractionFailed(e), limiter |-> lim,
                  extract |-> 1, check_key |-> 0]
            ELSE [local |-> IF d.ok THEN Admitted(e.key, d) ELSE Rejected(e.key, d),
                  limiter |-> [lim EXCEPT ![e.key] = d.tat],
                  extract |-> 1, check_key |-> 1]

StateInfo_call_check(r) ==
    /\ middleware = "StateInformationMiddleware"
    /\ Arrives(r)
    /\ \E rq \in Requests(r) :
         LET a == StateInfo_admission(rq, limiter)
         IN /\ req' = [req EXCEPT ![r] = rq]
            /\ local' = [local EXCEPT ![r] = a.local]
            /\ limiter' = a.limiter
            /\ spy' = [spy EXCEPT ![r].extract = @ + a.extract,
                                  ![r].check_key = @ + a.check_key]
    /\ pc' = [pc EXCEPT ![r] = "checked"]
    /\ UNCHANGED <<config, fut, out, ready>>

\* Variant of StateInfo_return that returns the bypassing request's future in
\* the Passthrough shape.
StateInfo_return_passthrough(l, t) ==
    CASE l.tag = "Whitelisted" ->
            [future |-> Passthrough(PendingFuture), inner_call |-> 1]
      [] l.tag = "Admitted" ->
            [future |-> RateLimitHeader(PendingFuture, l.burst, l.remaining),
             inner_call |-> 1]
      [] l.tag = "Rejected" ->
            LET wait_time == as_secs(wait_time_from(l.earliest, t))
                h1 == insert(NoHeaders, "x-ratelimit-after", to_string(wait_time))
                h2 == insert(h1, "x-ratelimit-limit", to_string(l.burst))
                h3 == insert(h2, "x-ratelimit-remaining", "0")
            IN [future |-> Error(Response(429, h3, TooManyRequests)), inner_call |-> 0]
      [] l.tag = "ExtractionFailed" ->
            [future |-> Error(Response(500, NoHeaders, l.error)), inner_call |-> 0]

\* call, lines 254-257 and 264-325; t is the clock reading of line 277
StateInfo_return(l, t) ==
    CASE l.tag = "Whitelisted" ->
            [future |-> WhitelistedHeader(PendingFuture), inner_call |-> 1]
      [] l.tag = "Admitted" ->
            [future |-> RateLimitHeader(PendingFuture, l.burst, l.remaining),
             inner_call |-> 1]
      [] l.tag = "Rejected" ->
            LET wait_time == as_secs(wait_time_from(l.earliest, t))
                h1 == insert(NoHeaders, "x-ratelimit-after", to_string(wait_time))
                h2 == insert(h1, "x-ratelimit-limit", to_string(l.burst))
                h3 == insert(h2, "x-ratelimit-remaining", "0")
            IN [future |-> Error(Response(429, h3, TooManyRequests)), inner_call |-> 0]
      [] l.tag = "ExtractionFailed" ->
            [future |-> Error(Response(500, NoHeaders, l.error)), inner_call |-> 0]

StateInfo_call_return(r) ==
    /\ middleware = "StateInformationMiddleware"
    /\ pc[r] = "checked"
    /\ LET ret == StateInfo_return(local[r], Now)
       IN /\ fut' = [fut EXCEPT ![r] = ret.future]
          /\ spy' = [spy EXCEPT ![r].inner_call = @ + ret.inner_call]
    /\ pc' = [pc EXCEPT ![r] = "returned"]
    /\ UNCHANGED <<config, limiter, req, local, out, ready>>

\* ------------------------------------------------------------------ ResponseFuture
\* What a poll of the wrapped downstream future may return.
InnerPolls == {Pending} \cup {Ready(result) : result \in HandlerResults}

\* Variant of poll that writes the two quota headers with their values exchanged.
poll_headers_exchanged(f, inner) ==
    CASE f.kind = "Passthrough" -> inner
      [] f.kind = "RateLimitHeader" ->
            IF inner.poll = "Pending" THEN Pending
            ELSE IF inner.result.tag = "Err" THEN Ready(Err(inner.result.error))
            ELSE LET response == inner.result.response
                     h1 == insert(NoHeaders, "x-ratelimit-limit",
                                  to_string(f.remaining_burst_capacity))
                     h2 == insert(h1, "x-ratelimit-remaining", to_string(f.burst_size))
                 IN Ready(Ok([response EXCEPT !.headers = extend(@, h2)]))
      [] f.kind = "WhitelistedHeader" ->
            IF inner.poll = "Pending" THEN Pending
            ELSE IF inner.result.tag = "Err" THEN Ready(Err(inner.result.error))
            ELSE LET response == inner.result.response
                 IN Ready(Ok([response EXCEPT
                                !.headers = insert(@, "x-ratelimit-whitelisted", "true")]))
      [] f.kind = "Error" ->
            LET error == f.error_response
            IN Ready(Ok(Response(error.status, NoHeaders, TooManyRequests)))

\* Variant of poll that answers a downstream error with a response of its own.
poll_answers_error(f, inner) ==
    CASE f.kind = "Passthrough" -> inner
      [] f.kind = "RateLimitHeader" ->
            IF inner.poll = "Pending" THEN Pending
            ELSE IF inner.result.tag = "Err"
            THEN Ready(Ok(Response(500, NoHeaders, inner.result.error)))
            ELSE LET response == inner.result.response
                     h1 == insert(NoHeaders, "x-ratelimit-limit", to_string(f.burst_size))
                     h2 == insert(h1, "x-ratelimit-remaining",
                                  to_string(f.remaining_burst_capacity))
                 IN Ready(Ok([response EXCEPT !.headers = extend(@, h2)]))
      [] f.kind = "WhitelistedHeader" ->
            IF inner.poll = "Pending" THEN Pending
            ELSE IF inner.result.tag = "Err" THEN Ready(Err(inner.result.error))
            ELSE LET response == inner.result.response
                 IN Ready(Ok([response EXCEPT
                                !.headers = insert(@, "x-ratelimit-whitelisted", "true")]))
      [] f.kind = "Error" ->
            LET error == f.error_response
            IN Ready(Ok(Response(error.status, NoHeaders, TooManyRequests)))

\* Variant of poll that answers Pending once more when the downstream of a
\* WhitelistedHeader future resolves.
poll_withholds(f, inner) ==
    CASE f.kind = "Passthrough" -> inner
      [] f.kind = "RateLimitHeader" ->
            IF inner.poll = "Pending" THEN Pending
            ELSE IF inner.result.tag = "Err" THEN Ready(Err(inner.result.error))
            ELSE LET response == inner.result.response
                     h1 == insert(NoHeaders, "x-ratelimit-limit", to_string(f.burst_size))
                     h2 == insert(h1, "x-ratelimit-remaining",
                                  to_string(f.remaining_burst_capacity))
                 IN Ready(Ok([response EXCEPT !.headers = extend(@, h2)]))
      [] f.kind = "WhitelistedHeader" -> Pending
      [] f.kind = "Error" ->
            LET error == f.error_response
            IN Ready(Ok(Response(error.status, NoHeaders, TooManyRequests)))

\* Future::poll for ResponseFuture; inner is what future.poll(cx) returns on this
\* poll in the three shapes that wrap the downstream future.
poll(f, inner) ==
    CASE f.kind = "Passthrough" -> inner
      [] f.kind = "RateLimitHeader" ->
            IF inner.poll = "Pending" THEN Pending
            ELSE IF inner.result.tag = "Err" THEN Ready(Err(inner.result.error))
            ELSE LET response == inner.result.response
                     h1 == insert(NoHeaders, "x-ratelimit-limit", to_string(f.burst_size))
                     h2 == insert(h1, "x-ratelimit-remaining",
                                  to_string(f.remaining_burst_capacity))
                 IN Ready(Ok([response EXCEPT !.headers = extend(@, h2)]))
      [] f.kind = "WhitelistedHeader" ->
            IF inner.poll = "Pending" THEN Pending
            ELSE IF inner.result.tag = "Err" THEN Ready(Err(inner.result.error))
            ELSE LET response == inner.result.response
                 IN Ready(Ok([response EXCEPT
                                !.headers = insert(@, "x-ratelimit-whitelisted", "true")]))
      [] f.kind = "Error" ->
            IF f.error_response = NoResponse THEN Panic
            ELSE LET error == f.error_response
                 IN Ready(Ok(Response(error.status, NoHeaders, TooManyRequests)))

\* Variant of ResponseFuture_poll that leaves a resolved header-attaching future
\* in the Passthrough shape.
ResponseFuture_poll_reshapes(r) ==
    /\ pc[r] = "returned"
    /\ IF fut[r].kind = "Error" THEN fut[r].life \in {"live", "done"} ELSE fut[r].life = "live"
    /\ \E inner \in IF fut[r].kind = "Error" THEN {Pending} ELSE InnerPolls :
         LET res == poll(fut[r], inner)
         IN /\ out' = [out EXCEPT ![r] = IF res.poll = "Ready" THEN res.result ELSE @]
            /\ fut' = [fut EXCEPT
                         ![r].life = IF res.poll = "Ready" THEN "done" ELSE @,
                         ![r].kind = IF res.poll = "Ready" /\ @ # "Error"
                                     THEN "Passthrough" ELSE @,
                         ![r].future = IF fut[r].kind # "Error" /\ inner.poll = "Ready"
                                       THEN ResolvedFuture(inner.result) ELSE @]
    /\ UNCHANGED <<config, limiter, pc, req, local, spy, ready>>

\* The caller polls the future it was returned; the wrapped downstream future
\* answers Pending or resolves, as the downstream handler decides.  A future that
\* has resolved is polled again only in the Error shape, which keeps its response.
ResponseFuture_poll(r) ==
    /\ pc[r] = "returned"
    /\ IF fut[r].kind = "Error" THEN fut[r].life \in {"live", "done"} ELSE fut[r].life = "live"
    /\ \E inner \in IF fut[r].kind = "Error" THEN {Pending} ELSE InnerPolls :
         LET res == poll(fut[r], inner)
         IN /\ out' = [out EXCEPT ![r] = IF res.poll = "Ready" THEN res.result ELSE @]
            /\ fut' = [fut EXCEPT
                         ![r].life = IF res.poll = "Ready" THEN "done"
                                     ELSE IF res.poll = "Panic" THEN "panicked" ELSE @,
                         ![r].future = IF fut[r].kind # "Error" /\ inner.poll = "Ready"
                                       THEN ResolvedFuture(inner.result) ELSE @]
    /\ UNCHANGED <<config, limiter, pc, req, local, spy, ready>>

\* Variant of ResponseFuture_drop that gives the token of an admitted request back.
ResponseFuture_drop_refunds(r) ==
    /\ pc[r] = "returned"
    /\ fut[r].life = "live"
    /\ fut' = [fut EXCEPT ![r].life = "dropped",
                           ![r].future = IF @ = NoFuture THEN @ ELSE DroppedFuture]
    /\ limiter' = IF local[r].tag = "Admitted"
                  THEN [limiter EXCEPT ![local[r].key] = SatSub(@, Period)]
                  ELSE limiter
    /\ UNCHANGED <<config, pc, req, local, out, spy, ready>>

\* The caller abandons the future before it resolved; the wrapped downstream
\* future is dropped with it.  ResponseFuture has no Drop implementation.
ResponseFuture_drop(r) ==
    /\ pc[r] = "returned"
    /\ fut[r].life = "live"
    /\ fut' = [fut EXCEPT ![r].life = "dropped",
                           ![r].future = IF @ = NoFuture THEN @ ELSE DroppedFuture]
    /\ UNCHANGED <<config, limiter, pc, req, local, out, spy, ready>>

\* ------------------------------------------------------------------ environment
\* The clock advances one tick: every instant held relative to it comes one tick
\* closer (the limiter's, and the one a call in progress took from its denial),
\* and every admission grows one tick older, up to Period.
Tick ==
    /\ limiter' = [k \in Keys |-> SatSub(limiter[k], 1)]
    /\ local' = [r \in Reqs |->
                   [local[r] EXCEPT
                      !.earliest = IF pc[r] = "checked" THEN SatSub(@, 1) ELSE @,
                      !.age = IF local[r].tag = "Admitted" /\ @ < Period THEN @ + 1 ELSE @]]
    /\ UNCHANGED <<config, pc, req, fut, out, spy, ready>>

Next ==
    \/ \E r \in Reqs : NoOp_call_check(r)
    \/ \E r \in Reqs : NoOp_call_return(r)
    \/ \E r \in Reqs : StateInfo_call_check(r)
    \/ \E r \in Reqs : StateInfo_call_return(r)
    \/ \E r \in Reqs : ResponseFuture_poll(r)
    \/ \E r \in Reqs : ResponseFuture_drop(r)
    \/ Tick

Spec == Init /\ [][Next]_vars

\* The poll at which the wrapped downstream future resolves.
ResponseFuture_resolves(r) ==
    ResponseFuture_poll(r) /\ fut'[r].future.state = "resolved"

\* The requests of one instant: every step of Next but the clock's, which no
\* poll reads.
NextInstant ==
    \/ \E r \in Reqs : NoOp_call_check(r)
    \/ \E r \in Reqs : NoOp_call_return(r)
    \/ \E r \in Reqs : StateInfo_call_check(r)
    \/ \E r \in Reqs : StateInfo_call_return(r)
    \/ \E r \in Reqs : ResponseFuture_poll(r)
    \/ \E r \in Reqs : ResponseFuture_drop(r)

\* call runs to its return, and a future that is neither resolved nor dropped is
\* polled until its downstream future resolves.
FairSpec ==
    /\ Init /\ [][NextInstant]_vars
    /\ \A r \in Reqs : /\ WF_vars(NoOp_call_return(r))
                       /\ WF_vars(StateInfo_call_return(r))
                       /\ WF_vars(ResponseFuture_resolves(r))

\* The same program, met after earlier requests spent the whole burst of "k1" at
\* this instant: every request for "k1" is denied until the clock has advanced.
InitExhausted ==
    /\ middleware \in {"NoOpMiddleware", "StateInformationMiddleware"}
    /\ methods \in MethodConfigs
    /\ burst_size = BurstSize
    /\ limiter = [k \in Keys |-> IF k = "k1" THEN Period * BurstSize ELSE 0]
    /\ pc = [r \in Reqs |-> "idle"]
    /\ req = [r \in Reqs |-> NoRequest]
    /\ local = [r \in Reqs |-> NoLocal]
    /\ fut = [r \in Reqs |-> NoKind]
    /\ out = [r \in Reqs |-> NoResult]
    /\ spy = [r \in Reqs |-> NoSpy]
    /\ ready = NoReady

SpecExhausted == InitExhausted /\ [][Next]_vars

\* The Service implementation alone, poll_ready and call, under the clock: the
\* futures call returned are left to their callers.  poll_ready reads no state
\* of the service and writes none.
NextReady ==
    \/ NoOp_poll_ready
    \/ StateInfo_poll_ready
    \/ \E r \in Reqs : NoOp_call_check(r)
    \/ \E r \in Reqs : NoOp_call_return(r)
    \/ \E r \in Reqs : StateInfo_call_check(r)
    \/ \E r \in Reqs : StateInfo_call_return(r)
    \/ Tick

SpecReady == Init /\ [][NextReady]_vars

\* ------------------------------------------------------------------ claims
Resolved(r) == fut[r].life = "done"
Bypasses(r) == pc[r] # "idle" /\ methods.some /\ req[r].method \notin methods.set
Header(r, name) == out[r].response.headers[name]

\* C1: token conservation.  For every key, the requests admitted within one
\* refill window (the Period ticks that replenish one token, counted from any
\* admission) never outnumber the burst size, whatever the interleaving of the
\* calls; two calls racing for the last token are never both admitted.
AdmittedSince(r) ==
    {q \in Reqs : /\ local[q].tag = "Admitted"
                  /\ local[q].key = local[r].key
                  /\ local[q].age <= local[r].age}
C1_TokenConservation ==
    \A r \in Reqs :
        (local[r].tag = "Admitted" /\ local[r].age < Period)
            => Cardinality(AdmittedSince(r)) <= burst_size
\* two calls for one key are in progress at once; one got the token, one did not
C1_Witness ==
    \E r, q \in Reqs :
        /\ pc[r] = "checked" /\ pc[q] = "checked"
        /\ local[r].key = local[q].key
        /\ local[r].tag = "Admitted" /\ local[q].tag = "Rejected"

\* C2: inner.call is invoked exactly once for an Admitted or Whitelisted request
\* and never for a Rejected or ExtractionFailed one, in both variants, also once
\* the future has been polled to completion.
C2_DownstreamCalls ==
    \A r \in Reqs :
        spy[r].inner_call =
            IF pc[r] = "returned" /\ local[r].tag \in {"Admitted", "Whitelisted"}
            THEN 1 ELSE 0
C2_Witness ==
    \E r, q \in Reqs :
        /\ Resolved(r) /\ local[r].tag \in {"Admitted", "Whitelisted"}
        /\ spy[r].inner_call = 1
        /\ Resolved(q) /\ local[q].tag \in {"Rejected", "ExtractionFailed"}
        /\ spy[q].inner_call = 0

\* C3: the response a denied request resolves to has status 429 and carries
\* x-ratelimit-after (the wait in seconds), x-ratelimit-limit (the burst size)
\* and x-ratelimit-remaining: 0.
C3_RejectionResponse ==
    \A r \in Reqs :
        (local[r].tag = "Rejected" /\ Resolved(r))
            => /\ out[r].tag = "Ok"
               /\ out[r].response.status = 429
               /\ Header(r, "x-ratelimit-after") = to_string(as_secs(local[r].earliest))
               /\ Header(r, "x-ratelimit-limit") = to_string(burst_size)
               /\ Header(r, "x-ratelimit-remaining") = "0"

\* C4: the response a request whose key extraction failed resolves to has status
\* 500 and the extractor's error text as its body.
C4_ExtractionFailureResponse ==
    \A r \in Reqs :
        (local[r].tag = "ExtractionFailed" /\ Resolved(r))
            => /\ out[r].tag = "Ok"
               /\ out[r].response.status = 500
               /\ out[r].response.body = ExtractionErrorText

\* C5: the response of an Admitted request whose downstream resolved to a
\* response carries x-ratelimit-limit, the burst size, and x-ratelimit-remaining,
\* the remaining count of that request's own decision, with remaining <= limit,
\* whatever was decided for the key in the meantime.
QuotaHeaders(r) ==
    /\ Header(r, "x-ratelimit-limit") = to_string(burst_size)
    /\ Header(r, "x-ratelimit-remaining") = to_string(local[r].remaining)
    /\ local[r].remaining <= burst_size
NeverDenied(r) ==
    /\ local[r].tag = "Whitelisted"
    /\ pc[r] = "returned" => fut[r].kind # "Error"
    /\ out[r].tag = "Ok" => out[r].response.status \notin {429, 500}
\* as claimed, in both variants
C6_Original ==
    \A r \in Reqs :
        Bypasses(r)
            => /\ NeverDenied(r)
               /\ (Resolved(r) /\ out[r].tag = "Ok")
                     => Header(r, "x-ratelimit-whitelisted") = "true"
\* as amended: the header in the StateInformationMiddleware variant only
C6_MethodBypass ==
    \A r \in Reqs :
        Bypasses(r)
            => /\ NeverDenied(r)
               /\ (middleware = "StateInformationMiddleware"
                   /\ Resolved(r) /\ out[r].tag = "Ok")
                     => Header(r, "x-ratelimit-whitelisted") = "true"
\* a GET resolves with the header while the key it carries is exhausted
C6_Witness ==
    /\ middleware = "StateInformationMiddleware"
    /\ \E r, q \in Reqs :
          /\ Bypasses(r) /\ Resolved(r) /\ out[r].tag = "Ok"
          /\ Header(r, "x-ratelimit-whitelisted") = "true"
          /\ local[q].tag = "Admitted" /\ local[q].key = req[r].api_key
          /\ limiter[local[q].key] > 0

\* C7: a request whose method is not in the allow-list leaves the limiter's
\* state unchanged for every key, and neither the extractor nor check_key is
\* invoked for it.
C7_BypassLeavesTracker ==
    [][\A r \in Reqs :
          /\ (pc[r] = "idle" /\ Bypasses(r)')
                => limiter' = limiter
          /\ Bypasses(r)' => (spy'[r].extract = 0 /\ spy'[r].check_key = 0)]_vars
\* a GET carrying a key passed while that key's token was spent
C7_Witness ==
    \E r, q \in Reqs :
        /\ q < r
        /\ Bypasses(r) /\ pc[r] = "returned"
        /\ local[q].tag = "Admitted" /\ local[q].key = req[r].api_key
        /\ limiter[local[q].key] > 0

\* C8: with burst size B, no allow-list, one key and B+1 requests in immediate
\* succession, the first B are admitted with x-ratelimit-remaining B-1, ..., 0
\* and the last resolves to 429 with x-ratelimit-after greater than 0
\* (StateInformationMiddleware).
JustAdmitted(k) ==
    {q \in Reqs : local[q].tag = "Admitted" /\ local[q].key = k /\ local[q].age = 0}
C8_BurstScenario ==
    (middleware = "StateInformationMiddleware" /\ ~methods.some)
        => \A r \in Reqs :
              (/\ local[r].tag = "Rejected" /\ Resolved(r)
               /\ Cardinality(JustAdmitted(local[r].key)) = burst_size
               /\ \A q \in JustAdmitted(local[r].key) : Resolved(q) /\ out[q].tag = "Ok")
                  => /\ {Header(q, "x-ratelimit-remaining") :
                            q \in JustAdmitted(local[r].key)}
                        = {to_string(n) : n \in 0..(burst_size - 1)}
                     /\ out[r].response.status = 429
                     /\ \E n \in 1..(Period * burst_size) :
                            Header(r, "x-ratelimit-after") = to_string(n)

\* C9: when the downstream completion resolves to an error, the future resolves
\* to that same error in every shape that wraps it; no response is synthesized,
\* no header attached, and the downstream is not called again.
C9_DownstreamErrorPropagated ==
    \A r \in Reqs :
        (fut[r].future.state = "resolved" /\ fut[r].future.result.tag = "Err")
            => /\ Resolved(r)
               /\ out[r] = Err(fut[r].future.result.error)
               /\ spy[r].inner_call = 1
\* both header-attaching shapes resolved to the downstream's error
C9_Witness ==
    \E r, q \in Reqs :
        /\ fut[r].kind = "RateLimitHeader" /\ fut[q].kind = "WhitelistedHeader"
        /\ out[r].tag = "Err" /\ out[q].tag = "Err"
        /\ out[r].error \in HandlerErrors

\* C10: polling the returned future, or dropping it before completion, never
\* touches quota: a step that changes a returned future or what it resolved to
\* leaves the limiter's state and the count of check_key calls as they were.
C10_FutureLeavesQuota ==
    [][\A r \in Reqs :
          (pc[r] = "returned" /\ (fut'[r] # fut[r] \/ out'[r] # out[r]))
              => (limiter' = limiter /\ spy' = spy /\ local' = local)]_vars
\* the future of an admitted request was dropped, and its token is still spent
C10_Witness ==
    \E r \in Reqs :
        /\ fut[r].life = "dropped" /\ local[r].tag = "Admitted"
        /\ local[r].age = 0
        /\ limiter[local[r].key] = Period

\* C11: in both variants poll_ready returns what the downstream handler's
\* poll_ready returns (Pending, Ready(Ok) or Ready(Err)), whatever the
\* limiter's state; an exhausted key never makes the service not ready.
C11_Readiness == ready.returned = ready.inner
\* ready was reported while a key had no token left
C11_Witness ==
    /\ ready.polled /\ ready.exhausted
    /\ ready.returned = Ready(OkUnit)
    /\ \E r \in Reqs : local[r].tag = "Rejected"

\* C12: two consecutive denied requests for one exhausted key resolve to
\* responses with the same status, the same header names and the same body,
\* x-ratelimit-after among the names; its value is the one the denial computed,
\* and the later denial never computes a larger one than the earlier.
DeniedPair(r, q) ==
    /\ r < q
    /\ local[r].tag = "Rejected" /\ local[q].tag = "Rejected"
    /\ local[r].key = local[q].key
    /\ \A p \in Reqs : (r < p /\ p < q /\ local[p].tag = "Admitted")
                            => local[p].key # local[r].key
NamesOf(response) == {n \in HeaderNames : response.headers[n] # Absent}
AfterOf(response) ==
    CHOOSE n \in 0..(Period * BurstSize) :
        to_string(n) = response.headers["x-ratelimit-after"]
\* the two resolved responses differ in the value of x-ratelimit-after at most
SameButAfter(r, q) ==
    /\ out[r].tag = "Ok" /\ out[q].tag = "Ok"
    /\ out[r].response.status = out[q].response.status
    /\ out[r].response.body = out[q].response.body
    /\ NamesOf(out[r].response) = NamesOf(out[q].response)
C12_IdenticalRejections ==
    \A r, q \in Reqs :
        (DeniedPair(r, q) /\ Resolved(r) /\ Resolved(q))
            => /\ SameButAfter(r, q)
               /\ "x-ratelimit-after" \in NamesOf(out[r].response)
               /\ Header(r, "x-ratelimit-after")
                     = fut[r].error_response.headers["x-ratelimit-after"]
               /\ Header(q, "x-ratelimit-after")
                     = fut[q].error_response.headers["x-ratelimit-after"]
\* the denial that reads the clock later computes no larger a wait
C12_AfterNonIncreasing ==
    \A r, q \in Reqs :
        (/\ pc[r] = "returned" /\ pc[q] = "checked" /\ pc'[q] = "returned"
         /\ DeniedPair(r, q))
            => AfterOf(fut'[q].error_response) <= AfterOf(fut[r].error_response)
C12_IdempotentRejection ==
    [](C12_IdenticalRejections) /\ [][C12_AfterNonIncreasing]_vars
\* the part of C12 that the responses built in call do satisfy
C12_Construction == [][C12_AfterNonIncreasing]_vars
\* the earlier denial computed one second, the later none, and both resolved
C12_Scenario ==
    \E r, q \in Reqs :
        /\ DeniedPair(r, q) /\ Resolved(r) /\ Resolved(q)
        /\ AfterOf(fut[r].error_response) = 1
        /\ AfterOf(fut[q].error_response) = 0

\* C13: the shape of a ResponseFuture is the one call chose and no poll changes
\* it; only the wrapped downstream future progresses, and the burst_size and
\* remaining_burst_capacity of a RateLimitHeader future stay as constructed.
ShapeOf(f) == <<f.kind, f.burst_size, f.remaining_burst_capacity, f.error_response>>
C13_ShapeFixed ==
    [][\A r \in Reqs :
          pc[r] = "returned"
              => /\ pc'[r] = "returned"
                 /\ ShapeOf(fut'[r]) = ShapeOf(fut[r])
                 /\ fut[r].kind \in {"Passthrough", "RateLimitHeader",
                                     "WhitelistedHeader", "Error"}]_vars
\* a RateLimitHeader future was polled to completion after a later decision for
\* its key, and still holds what it captured
C13_Witness ==
    \E r, q \in Reqs :
        /\ r < q
        /\ fut[r].kind = "RateLimitHeader" /\ Resolved(r)
        /\ fut[r].burst_size = burst_size
        /\ fut[r].remaining_burst_capacity = local[r].remaining
        /\ local[q].key = local[r].key /\ pc[q] = "returned"

\* C14: a future of the Error shape answers Ready to whatever poll it is given,
\* the first included, never Pending; it wraps no downstream future and none was
\* called; and it resolves to the response it was constructed with.
C14_TerminalResolves ==
    \A r \in Reqs :
        (pc[r] = "returned" /\ fut[r].kind = "Error")
            => /\ \A inner \in InnerPolls : poll(fut[r], inner).poll = "Ready"
               /\ fut[r].future = NoFuture /\ spy[r].inner_call = 0
               /\ Resolved(r) => out[r] = Ok(fut[r].error_response)
\* the part of C14 that holds: Ready at once, and no downstream involved
C14_ResolvesAtOnce ==
    \A r \in Reqs :
        (pc[r] = "returned" /\ fut[r].kind = "Error")
            => /\ \A inner \in InnerPolls : poll(fut[r], inner).poll = "Ready"
               /\ fut[r].future = NoFuture /\ spy[r].inner_call = 0
               /\ Resolved(r) => (/\ out[r].tag = "Ok"
                                  /\ out[r].response.status = fut[r].error_response.status)

\* C15: a future of one of the three wrapping shapes answers Pending to a poll
\* exactly when its downstream future does, and Ready on the poll at which the
\* downstream resolves; in the Passthrough shape with the downstream's own
\* result.  So every Admitted or Whitelisted request whose downstream completes
\* yields a result, unless its caller drops the future.
Wraps(r) == pc[r] = "returned" /\ fut[r].kind # "Error"
C15_PollFollowsDownstream ==
    \A r \in Reqs :
        Wraps(r)
            => /\ \A inner \in InnerPolls : poll(fut[r], inner).poll = inner.poll
               /\ Resolved(r) <=> fut[r].future.state = "resolved"
               /\ (fut[r].kind = "Passthrough" /\ Resolved(r))
                     => out[r] = fut[r].future.result
C15_Completion ==
    /\ [](C15_PollFollowsDownstream)
    /\ \A r \in Reqs :
          (local[r].tag \in {"Admitted", "Whitelisted"})
              ~> (Resolved(r) \/ fut[r].life = "dropped")
\* a Passthrough future resolved to a response carrying the handler's headers,
\* and a header-attaching one resolved too
C15_Witness ==
    \E r, q \in Reqs :
        /\ fut[r].kind = "Passthrough" /\ Resolved(r)
        /\ out[r] = Ok(Response(200, HandlerSet, "handler body"))
        /\ q # r /\ Wraps(q) /\ Resolved(q) /\ local[q].tag = "Admitted"

\* C16: a header the downstream handler set on its response (x-ratelimit-limit,
\* x-ratelimit-remaining, x-ratelimit-whitelisted) is still there, with the
\* handler's value, in the response an Admitted or Whitelisted request resolves
\* to.
C16_HandlerHeadersKept ==
    \A r \in Reqs :
        (Wraps(r) /\ Resolved(r) /\ out[r].tag = "Ok")
            => \A n \in NamesOf(fut[r].future.result.response) :
                   Header(r, n) = fut[r].future.result.response.headers[n]
\* what the code does instead: the core's value takes the place of the handler's
C16_CoreValueWins ==
    \A r \in Reqs :
        (Wraps(r) /\ Resolved(r) /\ out[r].tag = "Ok")
            => /\ fut[r].kind = "RateLimitHeader"
                    => /\ Header(r, "x-ratelimit-limit") = to_string(fut[r].burst_size)
                       /\ Header(r, "x-ratelimit-remaining")
                             = to_string(fut[r].remaining_burst_capacity)
               /\ fut[r].kind = "WhitelistedHeader"
                    => Header(r, "x-ratelimit-whitelisted") = "true"

\* C17: no failure path is fatal.  call returns a future of one of the four
\* shapes whatever the method filter, the extractor and the limiter answer; a
\* poll of it answers Pending, a well-formed response or the downstream's error,
\* also the repeated poll of an Error future that has resolved; no poll panics:
\* an Error future always holds Some response.
WellFormed(result) ==
    \/ result.tag = "Ok" /\ result.response.status \in {200, 429, 500}
                         /\ result.response.body # ""
    \/ result.tag = "Err" /\ result.error \in HandlerErrors
PollAnswers(f) ==
    {poll(f, inner) : inner \in IF f.kind = "Error" THEN {Pending} ELSE InnerPolls}
C17_NoFatalPath ==
    \A r \in Reqs :
        /\ pc[r] = "checked"
              => local[r].tag \in {"Whitelisted", "Admitted", "Rejected", "ExtractionFailed"}
        /\ pc[r] = "returned"
              => /\ fut[r].kind \in {"Passthrough", "RateLimitHeader",
                                     "WhitelistedHeader", "Error"}
                 /\ fut[r].life # "panicked"
                 /\ fut[r].kind = "Error" => fut[r].error_response # NoResponse
                 /\ (fut[r].life = "live" \/ fut[r].kind = "Error")
                       => \A a \in PollAnswers(fut[r]) :
                              \/ a = Pending /\ fut[r].kind # "Error"
                              \/ a.poll = "Ready" /\ WellFormed(a.result)
                 /\ Resolved(r) => WellFormed(out[r])
        /\ (Resolved(r) /\ fut[r].kind = "Error")
              => poll(fut[r], Pending) = Ready(out[r])
\* a denial has resolved and can be polled again, and the request admitted
\* before it resolved to the downstream's error
C17_Witness ==
    \E r, q \in Reqs :
        /\ local[r].tag = "Rejected" /\ Resolved(r)
        /\ out[r].response.status = 429
        /\ ENABLED ResponseFuture_poll(r)
        /\ local[q].tag = "Admitted" /\ Resolved(q)
        /\ out[q].tag = "Err"

\* C18: call applies the method filter, then the key extractor, then the
\* limiter.  It invokes check_key once when the method is subject to limiting
\* and a key was extracted, and not at all otherwise; a request of a method not
\* listed is forwarded even when no key could be extracted from it; a failed
\* extraction consumes no token of any key.
C18_AdmissionOrder ==
    /\ \A r \in Reqs :
          /\ spy[r].extract = IF pc[r] # "idle" /\ ~Bypasses(r) THEN 1 ELSE 0
          /\ spy[r].check_key =
                IF pc[r] # "idle" /\ ~Bypasses(r) /\ req[r].api_key # NoKey THEN 1 ELSE 0
          /\ (Bypasses(r) /\ req[r].api_key = NoKey)
                => /\ local[r].tag = "Whitelisted"
                   /\ pc[r] = "returned"
                         => (spy[r].inner_call = 1 /\ fut[r].kind # "Error")
          /\ (pc[r] # "idle" /\ ~Bypasses(r) /\ req[r].api_key = NoKey)
                => local[r].tag = "ExtractionFailed"
    /\ (\A r \in Reqs : local[r].tag \in {"none", "Whitelisted", "ExtractionFailed"})
          => limiter = [k \in Keys |-> 0]
\* a GET without a key was forwarded, a POST without a key was answered 500, and
\* the limiter was never consulted
C18_Witness ==
    /\ limiter = [k \in Keys |-> 0]
    /\ \E r, q \in Reqs :
          /\ Bypasses(r) /\ req[r].api_key = NoKey
          /\ pc[r] = "returned" /\ spy[r].inner_call = 1
          /\ local[q].tag = "ExtractionFailed" /\ Resolved(q)
          /\ spy[q] = [extract |-> 1, check_key |-> 0, inner_call |-> 0]

\* C19: the two variants decide alike.  In every reachable state of the limiter
\* both admission steps give every request the same outcome and leave the
\* limiter in the same state, and both return steps call the downstream for
\* the same outcomes and answer the same status otherwise.  NoOpMiddleware
\* returns Passthrough for Whitelisted and Admitted, and the response is then
\* the downstream's own; StateInformationMiddleware returns WhitelistedHeader
\* and RateLimitHeader.
AnyRequest == [method : Methods, api_key : Keys \cup {NoKey}]
SameDecision(l) ==
    LET n == NoOp_return(l, Now)
        s == StateInfo_return(l, Now)
    IN /\ n.inner_call = s.inner_call
       /\ n.future.kind = "Error" <=> s.future.kind = "Error"
       /\ n.future.error_response.status = s.future.error_response.status
       /\ l.tag = "Whitelisted"
             => (n.future.kind = "Passthrough" /\ s.future.kind = "WhitelistedHeader")
       /\ l.tag = "Admitted"
             => (n.future.kind = "Passthrough" /\ s.future.kind = "RateLimitHeader")
C19_VariantsAgree ==
    /\ \A rq \in AnyRequest : NoOp_admission(rq, limiter) = StateInfo_admission(rq, limiter)
    /\ \A r \in Reqs :
          /\ pc[r] # "idle" => SameDecision(local[r])
          /\ (middleware = "NoOpMiddleware" /\ Wraps(r))
                => /\ fut[r].kind = "Passthrough"
                   /\ Resolved(r) => out[r] = fut[r].future.result
\* NoOpMiddleware returned the handler's response as it was, headers included,
\* for an admitted request, and denied the next request for the key
C19_Witness ==
    /\ middleware = "NoOpMiddleware"
    /\ \E r, q \in Reqs :
          /\ local[r].tag = "Admitted" /\ Resolved(r)
          /\ out[r] = Ok(Response(200, HandlerSet, "handler body"))
          /\ local[q].tag = "Rejected" /\ local[q].key = local[r].key
          /\ pc[q] = "returned"

\* C20: the x-ratelimit-after value call places in a denial's response is the
\* limiter's wait from the clock reading, truncated to whole seconds: a number
\* n >= 0 of seconds that does not exceed the wait, and 0 when the wait is
\* under one second.  (local[r].earliest is the wait, in ticks, at the clock
\* reading of the call's return.)
C20_WaitTruncated ==
    \A r \in Reqs :
        (pc[r] = "returned" /\ local[r].tag = "Rejected")
            => \E n \in 0..(Period * BurstSize) :
                   /\ fut[r].error_response.headers["x-ratelimit-after"] = to_string(n)
                   /\ n * TicksPerSec <= local[r].earliest
                   /\ local[r].earliest < (n + 1) * TicksPerSec
\* a denial with a wait of one tick, less than a second, was given 0
C20_Witness ==
    \E r \in Reqs :
        /\ pc[r] = "returned" /\ local[r].tag = "Rejected"
        /\ local[r].earliest = 1
        /\ fut[r].error_response.headers["x-ratelimit-after"] = "0"

====
